---- MODULE Spec2Model ----
(***************************************************************************)
(* State-machine model of the trivia game core (game.py): the roster of    *)
(* players, the board of themed questions, the current question, and the   *)
(* operations join, leave, select_question, select_answering_player,       *)
(* accept_answer, decline_answer, skip_question and the is_over query.     *)
(*                                                                         *)
(* Python objects are modelled by identity: a Player is a positive integer *)
(* (allocated by join, never reused), a Question is the pair               *)
(* <<theme, index>> of its position on the board.  Every action models one *)
(* whole call; `raised` records the exception the call ended with ("ok"    *)
(* when it returned normally) and `last_op` the call and its arguments.    *)
(*                                                                         *)
(* The second half models the socket handlers of app.py on one game of the *)
(* registry: the game_method, game_host_only and joined_player_only        *)
(* decorators, SocketIOGame.join and leave with players_by_key, and the    *)
(* message each handler emits.  Spec is the core called directly (as       *)
(* tests.py does), AppSpec the core behind the handlers.                   *)
(***************************************************************************)
EXTENDS Integers, Sequences, FiniteSets, TLC

\* ------------------------------------------------------------------ bounds
MaxPlayers == 2      \* number of join calls explored
MaxDeclines == 1     \* number of successful decline_answer calls explored
LivePlayers == 1     \* number of join calls explored under the fairness conditions
AppPlayers == 1      \* number of join_game messages accepted behind the handlers

\* ---------------------------------------------------------------- constants
NoPlayer == 0                 \* Question.answering_player = None
NoQuestion == <<>>            \* Game.current_question = None
\* player names: join does not require them unique and the core never reads
\* them, so the players of a game all carry the same name here
Names == {"Test Player"}

\* Question(text, answer, score): disabled = False, answering_player = None.
\* text and answer are never read by the core and are left out.
Question(s) == [score |-> s, disabled |-> FALSE, answering_player |-> NoPlayer]

\* Boards a game can be created with (themes_questions after load_game_themes).
\* The first is the board of tests.py; the second has a duplicated score in
\* one theme and a theme with an empty question list.
Boards ==
    { [TestTheme |-> << Question(100), Question(200) >>],
      [TestTheme |-> << Question(100), Question(100) >>, Empty |-> << >>] }

ThemeInputs == {"TestTheme", "Empty", "InvalidTheme"}
ScoreInputs == {100, 200, 300}

\* SocketIOGame.game_id and SocketIOGame.host_key: set once by __init__
GameId == "game-id"
HostKey == "host-key"

\* SocketIOPlayer.key: a uuid4 per player object, distinct from every other
KeyOf(p) == p
NoKey == 0                    \* a message without player_key
UnknownKey == -1              \* a player_key that was never issued

\* the identifiers a message can carry: "" stands for a missing one
GameIdInputs == {"", "no-such-game", GameId}
HostKeyInputs == {"", "wrong-key", HostKey}

\* ------------------------------------------------------------------- state
VARIABLES
    players,            \* Game.players: sequence of player ids, in join order
    player_name,        \* Player.name of every player object created so far
    player_score,       \* Player.score of every player object created so far
    themes_questions,   \* Game.themes_questions: theme -> sequence of questions
    current_question,   \* Game.current_question: NoQuestion or <<theme, index>>
    raised,             \* outcome of the last call: "ok" or the exception name
    last_op,            \* the last call and its arguments
    returned,           \* <<v>> when the last call was the is_over query, else <<>>
    declines,           \* successful decline_answer calls so far (bound only)
    players_by_key,     \* SocketIOGame.players_by_key: key -> player
    message,            \* the last message a socket handler received
    emitted             \* the message the last socket handler emitted

gameVars == << players, player_name, player_score, themes_questions, current_question >>
appVars == << players_by_key, message, emitted >>
vars == << players, player_name, player_score, themes_questions, current_question,
           raised, last_op, returned, declines, players_by_key, message, emitted >>

Op(name, theme, score, player) ==
    [op |-> name, theme |-> theme, score |-> score, player |-> player]

Range(s) == { s[i] : i \in 1..Len(s) }

\* a message: the socket event and the identifiers it carries
Message(event, game_id, host_key, player_key) ==
    [event |-> event, game_id |-> game_id, host_key |-> host_key,
     player_key |-> player_key]

\* emit(event, ...): status is the "status" of a fail message, 0 otherwise
Emit(event, status) == [event |-> event, status |-> status]

\* every Player object created so far (members and players who left)
Created == DOMAIN player_score

\* the Question object current_question references
CurrentQ == themes_questions[current_question[1]][current_question[2]]

\* assignment to one field of the question at <<theme, index>>
WithQuestion(tq, ref, q) == [tq EXCEPT ![ref[1]][ref[2]] = q]

Init ==
    /\ players = << >>
    /\ player_name = << >>
    /\ player_score = << >>
    /\ themes_questions \in Boards
    /\ current_question = NoQuestion
    /\ raised = "ok"
    /\ last_op = Op("__init__", "", 0, NoPlayer)
    /\ returned = << >>
    /\ declines = 0
    /\ players_by_key = << >>
    /\ message = Message("start_game", "", "", NoKey)
    /\ emitted = Emit("game_started", 0)

\* a call that raises: nothing was assigned before the raise
Raise(e) ==
    /\ raised' = e
    /\ UNCHANGED gameVars

\* ------------------------------------------------------------------ roster
\* Game.join: a new Player with score 0 is appended to players
join(player_name_arg) ==
    /\ Cardinality(Created) < MaxPlayers
    /\ LET p == Len(player_score) + 1 IN
        /\ player_name' = Append(player_name, player_name_arg)
        /\ player_score' = Append(player_score, 0)
        /\ players' = Append(players, p)
        /\ last_op' = Op("join", "", 0, p)
    /\ raised' = "ok"
    /\ returned' = << >>
    /\ UNCHANGED << themes_questions, current_question, declines >>

\* list.remove(x): the list without its first element equal to x
RECURSIVE list_remove(_, _)
list_remove(s, x) ==
    IF s = << >> THEN << >>
    ELSE IF Head(s) = x THEN Tail(s)
    ELSE << Head(s) >> \o list_remove(Tail(s), x)

\* the list without its first element whose name equals the name of x
RECURSIVE list_remove_by_name(_, _)
list_remove_by_name(s, x) ==
    IF s = << >> THEN << >>
    ELSE IF player_name[Head(s)] = player_name[x] THEN Tail(s)
    ELSE << Head(s) >> \o list_remove_by_name(Tail(s), x)

\* Game.leave over players that compare equal when their names are equal
leave_by_name(player) ==
    /\ last_op' = Op("leave", "", 0, player)
    /\ returned' = << >>
    /\ IF player \in Range(players)
       THEN /\ players' = list_remove_by_name(players, player)
            /\ raised' = "ok"
            /\ UNCHANGED << player_name, player_score, themes_questions, current_question >>
       ELSE Raise("ValueError")
    /\ UNCHANGED declines

\* Game.leave that ignores a player who is not in the list
leave_silent(player) ==
    /\ last_op' = Op("leave", "", 0, player)
    /\ returned' = << >>
    /\ raised' = "ok"
    /\ players' = list_remove(players, player)
    /\ UNCHANGED << player_name, player_score, themes_questions, current_question >>
    /\ UNCHANGED declines

\* Game.leave: players.remove(player); ValueError when player is not in the list
leave(player) ==
    /\ last_op' = Op("leave", "", 0, player)
    /\ returned' = << >>
    /\ IF player \in Range(players)
       THEN /\ players' = list_remove(players, player)
            /\ raised' = "ok"
            /\ UNCHANGED << player_name, player_score, themes_questions, current_question >>
       ELSE Raise("ValueError")
    /\ UNCHANGED declines

\* ------------------------------------------------------- question selection
\* scan_questions as a loop that passes over disabled questions and takes
\* the first enabled match
RECURSIVE scan_questions_skip_disabled(_, _, _)
scan_questions_skip_disabled(theme_questions, score, i) ==
    IF i > Len(theme_questions)
    THEN [raised |-> "QuestionNotFound", index |-> 0]
    ELSE IF theme_questions[i].score = score /\ ~ theme_questions[i].disabled
         THEN [raised |-> "ok", index |-> i]
         ELSE scan_questions_skip_disabled(theme_questions, score, i + 1)

\* scan_questions without the check of the disabled flag
RECURSIVE scan_questions_any(_, _, _)
scan_questions_any(theme_questions, score, i) ==
    IF i > Len(theme_questions)
    THEN [raised |-> "QuestionNotFound", index |-> 0]
    ELSE IF theme_questions[i].score = score
         THEN [raised |-> "ok", index |-> i]
         ELSE scan_questions_any(theme_questions, score, i + 1)

\* the for/else loop of select_question over theme_questions from position i:
\* the first question whose score matches decides
RECURSIVE scan_questions(_, _, _)
scan_questions(theme_questions, score, i) ==
    IF i > Len(theme_questions)
    THEN [raised |-> "QuestionNotFound", index |-> 0]
    ELSE IF theme_questions[i].score = score
         THEN IF theme_questions[i].disabled
              THEN [raised |-> "QuestionDisabled", index |-> i]
              ELSE [raised |-> "ok", index |-> i]
         ELSE scan_questions(theme_questions, score, i + 1)

\* themes_questions.get(theme): the list, or << >> standing for None (both falsy)
dict_get(tq, theme) == IF theme \in DOMAIN tq THEN tq[theme] ELSE << >>

\* Game.select_question
select_question(theme, score) ==
    /\ last_op' = Op("select_question", theme, score, NoPlayer)
    /\ returned' = << >>
    /\ IF current_question # NoQuestion
       THEN Raise("QuestionIsAlreadySelected")
       ELSE LET theme_questions == dict_get(themes_questions, theme) IN
            IF theme_questions = << >>
            THEN Raise("ThemeNotFound")
            ELSE LET r == scan_questions(theme_questions, score, 1) IN
                 IF r.raised # "ok"
                 THEN Raise(r.raised)
                 ELSE /\ current_question' = << theme, r.index >>
                      /\ raised' = "ok"
                      /\ UNCHANGED << players, player_name, player_score, themes_questions >>
    /\ UNCHANGED declines

\* ------------------------------------------------- answering-player choice
\* Game.select_answering_player that refuses every call made while an
\* answering player is set, the same player included
select_answering_player_strict(player) ==
    /\ player \in Range(players)
    /\ last_op' = Op("select_answering_player", "", 0, player)
    /\ returned' = << >>
    /\ IF current_question = NoQuestion
       THEN Raise("QuestionIsNotSelected")
       ELSE IF CurrentQ.answering_player # NoPlayer
       THEN Raise("PlayerIsAlreadySelected")
       ELSE /\ themes_questions' = WithQuestion(themes_questions, current_question,
                                       [CurrentQ EXCEPT !.answering_player = player])
            /\ raised' = "ok"
            /\ UNCHANGED << players, player_name, player_score, current_question >>
    /\ UNCHANGED declines

\* Game.select_answering_player without the check of the player already set:
\* the last caller becomes the answering player
select_answering_player_overwrite(player) ==
    /\ player \in Range(players)
    /\ last_op' = Op("select_answering_player", "", 0, player)
    /\ returned' = << >>
    /\ IF current_question = NoQuestion
       THEN Raise("QuestionIsNotSelected")
       ELSE /\ themes_questions' = WithQuestion(themes_questions, current_question,
                                       [CurrentQ EXCEPT !.answering_player = player])
            /\ raised' = "ok"
            /\ UNCHANGED << players, player_name, player_score, current_question >>
    /\ UNCHANGED declines

\* Game.select_answering_player; the caller (app.py, joined_player_only)
\* passes a player found in players_by_key, i.e. a current roster member
select_answering_player(player) ==
    /\ player \in Range(players)
    /\ last_op' = Op("select_answering_player", "", 0, player)
    /\ returned' = << >>
    /\ IF current_question = NoQuestion
       THEN Raise("QuestionIsNotSelected")
       ELSE IF CurrentQ.answering_player # NoPlayer /\ CurrentQ.answering_player # player
       THEN Raise("PlayerIsAlreadySelected")
       ELSE /\ themes_questions' = WithQuestion(themes_questions, current_question,
                                       [CurrentQ EXCEPT !.answering_player = player])
            /\ raised' = "ok"
            /\ UNCHANGED << players, player_name, player_score, current_question >>
    /\ UNCHANGED declines

\* ------------------------------------------------------- answer resolution
\* Question.accept_answer that forgets to disable the question
Question_accept_answer_enabled(q) ==
    [q EXCEPT !.answering_player = NoPlayer]

\* Question.accept_answer: the question after the call
Question_accept_answer(q) ==
    [q EXCEPT !.answering_player = NoPlayer, !.disabled = TRUE]

\* Question.accept_answer: the players' scores after the call
Question_accept_answer_scores(q, scores) ==
    [scores EXCEPT ![q.answering_player] = @ + q.score]

\* Question.decline_answer that disables the question as accept_answer does
Question_decline_answer_disabling(q) ==
    [q EXCEPT !.answering_player = NoPlayer, !.disabled = TRUE]

\* Question.decline_answer: the question after the call
Question_decline_answer(q) ==
    [q EXCEPT !.answering_player = NoPlayer]

\* Question.decline_answer with the sign of accept_answer
Question_decline_answer_scores_plus(q, scores) ==
    [scores EXCEPT ![q.answering_player] = @ + q.score]

\* Question.decline_answer: the players' scores after the call
Question_decline_answer_scores(q, scores) ==
    [scores EXCEPT ![q.answering_player] = @ - q.score]

\* Game.accept_answer that clears current_question before the check of the
\* answering player
accept_answer_clears_first ==
    /\ last_op' = Op("accept_answer", "", 0, NoPlayer)
    /\ returned' = << >>
    /\ IF current_question = NoQuestion
       THEN Raise("QuestionIsNotSelected")
       ELSE IF CurrentQ.answering_player = NoPlayer
       THEN /\ raised' = "PlayerIsNotSelected"
            /\ current_question' = NoQuestion
            /\ UNCHANGED << players, player_name, player_score, themes_questions >>
       ELSE /\ player_score' = Question_accept_answer_scores(CurrentQ, player_score)
            /\ themes_questions' = WithQuestion(themes_questions, current_question,
                                       Question_accept_answer(CurrentQ))
            /\ current_question' = NoQuestion
            /\ raised' = "ok"
            /\ UNCHANGED << players, player_name >>
    /\ UNCHANGED declines

\* Game.accept_answer
accept_answer ==
    /\ last_op' = Op("accept_answer", "", 0, NoPlayer)
    /\ returned' = << >>
    /\ IF current_question = NoQuestion
       THEN Raise("QuestionIsNotSelected")
       ELSE IF CurrentQ.answering_player = NoPlayer
       THEN Raise("PlayerIsNotSelected")
       ELSE /\ player_score' = Question_accept_answer_scores(CurrentQ, player_score)
            /\ themes_questions' = WithQuestion(themes_questions, current_question,
                                       Question_accept_answer(CurrentQ))
            /\ current_question' = NoQuestion
            /\ raised' = "ok"
            /\ UNCHANGED << players, player_name >>
    /\ UNCHANGED declines

\* Game.decline_answer
decline_answer ==
    /\ last_op' = Op("decline_answer", "", 0, NoPlayer)
    /\ returned' = << >>
    /\ IF current_question = NoQuestion
       THEN Raise("QuestionIsNotSelected") /\ UNCHANGED declines
       ELSE IF CurrentQ.answering_player = NoPlayer
       THEN Raise("PlayerIsNotSelected") /\ UNCHANGED declines
       ELSE /\ declines < MaxDeclines
            /\ declines' = declines + 1
            /\ player_score' = Question_decline_answer_scores(CurrentQ, player_score)
            /\ themes_questions' = WithQuestion(themes_questions, current_question,
                                       Question_decline_answer(CurrentQ))
            /\ current_question' = current_question
            /\ raised' = "ok"
            /\ UNCHANGED << players, player_name >>

\* Game.skip_question that clears current_question without disabling it
skip_question_keeps_enabled ==
    /\ last_op' = Op("skip_question", "", 0, NoPlayer)
    /\ returned' = << >>
    /\ IF current_question = NoQuestion
       THEN Raise("QuestionIsNotSelected")
       ELSE /\ current_question' = NoQuestion
            /\ raised' = "ok"
            /\ UNCHANGED << players, player_name, player_score, themes_questions >>
    /\ UNCHANGED declines

\* Game.skip_question with the guard on the answering player that
\* accept_answer and decline_answer have
skip_question_requires_player ==
    /\ last_op' = Op("skip_question", "", 0, NoPlayer)
    /\ returned' = << >>
    /\ IF current_question = NoQuestion
       THEN Raise("QuestionIsNotSelected")
       ELSE IF CurrentQ.answering_player = NoPlayer
       THEN Raise("PlayerIsNotSelected")
       ELSE /\ themes_questions' = WithQuestion(themes_questions, current_question,
                                       [CurrentQ EXCEPT !.disabled = TRUE])
            /\ current_question' = NoQuestion
            /\ raised' = "ok"
            /\ UNCHANGED << players, player_name, player_score >>
    /\ UNCHANGED declines

\* Game.skip_question that disables the question and leaves it current
skip_question_keeps_current ==
    /\ last_op' = Op("skip_question", "", 0, NoPlayer)
    /\ returned' = << >>
    /\ IF current_question = NoQuestion
       THEN Raise("QuestionIsNotSelected")
       ELSE /\ themes_questions' = WithQuestion(themes_questions, current_question,
                                       [CurrentQ EXCEPT !.disabled = TRUE])
            /\ raised' = "ok"
            /\ UNCHANGED << players, player_name, player_score, current_question >>
    /\ UNCHANGED declines

\* Game.skip_question
skip_question ==
    /\ last_op' = Op("skip_question", "", 0, NoPlayer)
    /\ returned' = << >>
    /\ IF current_question = NoQuestion
       THEN Raise("QuestionIsNotSelected")
       ELSE /\ themes_questions' = WithQuestion(themes_questions, current_question,
                                       [CurrentQ EXCEPT !.disabled = TRUE])
            /\ current_question' = NoQuestion
            /\ raised' = "ok"
            /\ UNCHANGED << players, player_name, player_score >>
    /\ UNCHANGED declines

\* ---------------------------------------------------------- game-over query
\* inner loop of is_over that returns after looking at one question only
some_enabled_first(questions, i) ==
    IF i > Len(questions) THEN FALSE
    ELSE ~ questions[i].disabled

\* inner loop of is_over: TRUE when some question from position i on is enabled
RECURSIVE some_enabled(_, _)
some_enabled(questions, i) ==
    IF i > Len(questions) THEN FALSE
    ELSE IF ~ questions[i].disabled THEN TRUE
    ELSE some_enabled(questions, i + 1)

\* outer loop of is_over over the themes not yet visited
RECURSIVE is_over_scan(_, _)
is_over_scan(tq, themes) ==
    IF themes = {} THEN TRUE
    ELSE LET theme == CHOOSE t \in themes : TRUE IN
         IF some_enabled(tq[theme], 1) THEN FALSE
         ELSE is_over_scan(tq, themes \ {theme})

\* Game.is_over as a function of the board
is_over_of(tq) == is_over_scan(tq, DOMAIN tq)

\* reading the Game.is_over property
is_over ==
    /\ last_op' = Op("is_over", "", 0, NoPlayer)
    /\ returned' = << is_over_of(themes_questions) >>
    /\ raised' = "ok"
    /\ UNCHANGED gameVars
    /\ UNCHANGED declines

\* ---------------------------------------------------------- socket handlers
\* game_method: 0 when the message names this game, else the fail status
game_method_status(msg) ==
    IF msg.game_id = "" THEN -1
    ELSE IF msg.game_id # GameId THEN -2
    ELSE 0

\* game_host_only: 0 when the message carries the host key of the game
game_host_only_status(msg) ==
    IF game_method_status(msg) # 0 THEN game_method_status(msg)
    ELSE IF msg.host_key = "" THEN -3
    ELSE IF msg.host_key # HostKey THEN -4
    ELSE 0

\* joined_player_only: 0 when the message carries a key of players_by_key
joined_player_only_status(msg) ==
    IF game_method_status(msg) # 0 THEN game_method_status(msg)
    ELSE IF msg.player_key = NoKey THEN -5
    ELSE IF msg.player_key \notin DOMAIN players_by_key THEN -6
    ELSE 0

\* a decorator returns emit("fail", ...): the handler and the core are not
\* called
Refused(status) ==
    /\ emitted' = Emit("fail", status)
    /\ last_op' = Op("none", "", 0, NoPlayer)
    /\ raised' = "ok"
    /\ returned' = << >>
    /\ UNCHANGED gameVars
    /\ UNCHANGED << players_by_key, declines >>

\* the dict without the key
dict_del(d, k) == [ x \in DOMAIN d \ {k} |-> d[x] ]

\* SocketIOGame.join: Game.join with a SocketIOPlayer, then the key is stored
SocketIOGame_join(player_name_arg) ==
    /\ join(player_name_arg)
    /\ players_by_key' =
           (KeyOf(Len(player_score) + 1) :> (Len(player_score) + 1)) @@ players_by_key

\* SocketIOGame.leave that forgets to delete the key of the player
SocketIOGame_leave_keeps_key(player) ==
    /\ leave(player)
    /\ UNCHANGED players_by_key

\* SocketIOGame.leave: players.remove(player), then del players_by_key[key]
\* (not reached when remove raises; KeyError when the key is not stored)
SocketIOGame_leave(player) ==
    /\ last_op' = Op("leave", "", 0, player)
    /\ returned' = << >>
    /\ IF player \notin Range(players)
       THEN Raise("ValueError") /\ UNCHANGED players_by_key
       ELSE /\ players' = list_remove(players, player)
            /\ UNCHANGED << player_name, player_score, themes_questions, current_question >>
            /\ IF KeyOf(player) \in DOMAIN players_by_key
               THEN /\ players_by_key' = dict_del(players_by_key, KeyOf(player))
                    /\ raised' = "ok"
               ELSE /\ raised' = "KeyError"
                    /\ UNCHANGED players_by_key
    /\ UNCHANGED declines

\* the fail status a handler emits for a condition of the core
fail_status(e) ==
    CASE e = "QuestionIsAlreadySelected" -> 1
      [] e = "ThemeNotFound" -> 2
      [] e = "QuestionDisabled" -> 3
      [] e = "QuestionNotFound" -> 4
      [] e = "QuestionIsNotSelected" -> 5
      [] e = "PlayerIsNotSelected" -> 6
      [] e = "PlayerIsAlreadySelected" -> 7

\* what a handler emits after its call of the core: the fail message of the
\* condition it caught, else its own event
emit_outcome(e, event) ==
    IF e = "ok" THEN Emit(event, 0) ELSE Emit("fail", fail_status(e))

\* @socketio.on("join_game")
on_join_game(msg, player_name_arg) ==
    /\ message' = msg
    /\ IF game_method_status(msg) # 0
       THEN Refused(game_method_status(msg))
       ELSE /\ SocketIOGame_join(player_name_arg)
            /\ emitted' = Emit("player_joined", 0)

\* @socketio.on("leave_game"); an exception of leave is not caught and
\* nothing is emitted
on_leave_game(msg) ==
    /\ message' = msg
    /\ IF joined_player_only_status(msg) # 0
       THEN Refused(joined_player_only_status(msg))
       ELSE /\ SocketIOGame_leave(players_by_key[msg.player_key])
            /\ emitted' = IF raised' = "ok" THEN Emit("player_left", 0)
                                            ELSE Emit("none", 0)

\* @socketio.on("sync")
on_sync(msg) ==
    /\ message' = msg
    /\ IF game_method_status(msg) # 0
       THEN Refused(game_method_status(msg))
       ELSE IF msg.host_key # "" /\ msg.host_key # HostKey
       THEN Refused(-4)
       ELSE IF msg.host_key = "" /\ msg.player_key \notin DOMAIN players_by_key
       THEN Refused(-6)
       ELSE /\ is_over
            /\ emitted' = Emit("synced", 0)
            /\ UNCHANGED players_by_key

\* @socketio.on("select_question")
on_select_question(msg, theme, score) ==
    /\ message' = msg
    /\ IF game_host_only_status(msg) # 0
       THEN Refused(game_host_only_status(msg))
       ELSE /\ select_question(theme, score)
            /\ emitted' = emit_outcome(raised', "question_selected")
            /\ UNCHANGED players_by_key

\* @socketio.on("select_answering_player"); the player of the key is a
\* roster member as long as players_by_key holds the roster's keys
on_select_answering_player(msg) ==
    /\ message' = msg
    /\ IF joined_player_only_status(msg) # 0
       THEN Refused(joined_player_only_status(msg))
       ELSE /\ select_answering_player(players_by_key[msg.player_key])
            /\ emitted' = emit_outcome(raised', "selected_answering_player")
            /\ UNCHANGED players_by_key

\* @socketio.on("decline_answer")
on_decline_answer(msg) ==
    /\ message' = msg
    /\ IF game_host_only_status(msg) # 0
       THEN Refused(game_host_only_status(msg))
       ELSE /\ decline_answer
            /\ emitted' = emit_outcome(raised', "synced")
            /\ UNCHANGED players_by_key

\* @socketio.on("accept_answer")
on_accept_answer(msg) ==
    /\ message' = msg
    /\ IF game_host_only_status(msg) # 0
       THEN Refused(game_host_only_status(msg))
       ELSE /\ accept_answer
            /\ emitted' = emit_outcome(raised', "synced")
            /\ UNCHANGED players_by_key

\* @socketio.on("skip_question")
on_skip_question(msg) ==
    /\ message' = msg
    /\ IF game_host_only_status(msg) # 0
       THEN Refused(game_host_only_status(msg))
       ELSE /\ skip_question
            /\ emitted' = emit_outcome(raised', "synced")
            /\ UNCHANGED players_by_key

\* the player keys a message can carry: none, a key never issued, and the
\* key of every player who ever joined
PlayerKeyInputs == { NoKey, UnknownKey } \cup { KeyOf(p) : p \in Created }

\* the messages explored for a handler behind game_method: every game id
GameMessages(event) ==
    { Message(event, g, "", NoKey) : g \in GameIdInputs }

\* the messages explored for a handler behind game_host_only: every game id
\* with the host key, and every host key with the game's id
HostMessages(event) ==
    { Message(event, g, HostKey, NoKey) : g \in GameIdInputs } \cup
    { Message(event, GameId, h, NoKey) : h \in HostKeyInputs }

\* the messages explored for a handler behind joined_player_only: every
\* game id without player key, and every player key with the game's id
PlayerMessages(event) ==
    { Message(event, g, "", NoKey) : g \in GameIdInputs } \cup
    { Message(event, GameId, "", k) : k \in PlayerKeyInputs }

\* ------------------------------------------------------------ specification
Next ==
    \/ \E n \in Names : join(n) /\ UNCHANGED appVars
    \/ \E p \in Created : leave(p) /\ UNCHANGED appVars
    \/ \E t \in ThemeInputs, s \in ScoreInputs :
          select_question(t, s) /\ UNCHANGED appVars
    \/ \E p \in Created : select_answering_player(p) /\ UNCHANGED appVars
    \/ accept_answer /\ UNCHANGED appVars
    \/ decline_answer /\ UNCHANGED appVars
    \/ skip_question /\ UNCHANGED appVars
    \/ is_over /\ UNCHANGED appVars

Spec == Init /\ [][Next]_vars

\* the host keeps playing: a successful select_question, and a successful
\* accept_answer or skip_question, are taken when they stay possible
HostSelects ==
    \E t \in ThemeInputs, s \in ScoreInputs :
        select_question(t, s) /\ raised' = "ok" /\ UNCHANGED appVars

HostResolves ==
    (accept_answer \/ skip_question) /\ raised' = "ok" /\ UNCHANGED appVars

\* the steps of Next in games of at most LivePlayers players
LiveNext ==
    \/ \E n \in Names :
          Len(player_score) < LivePlayers /\ join(n) /\ UNCHANGED appVars
    \/ \E p \in Created : leave(p) /\ UNCHANGED appVars
    \/ \E t \in ThemeInputs, s \in ScoreInputs :
          select_question(t, s) /\ UNCHANGED appVars
    \/ \E p \in Created : select_answering_player(p) /\ UNCHANGED appVars
    \/ accept_answer /\ UNCHANGED appVars
    \/ decline_answer /\ UNCHANGED appVars
    \/ skip_question /\ UNCHANGED appVars
    \/ is_over /\ UNCHANGED appVars

LiveSpec ==
    /\ Init
    /\ [][LiveNext]_vars
    /\ WF_vars(HostSelects)
    /\ WF_vars(HostResolves)

\* the game behind its socket handlers, with at most AppPlayers players
AppNext ==
    \/ \E msg \in GameMessages("join_game"), n \in Names :
          Len(player_score) < AppPlayers /\ on_join_game(msg, n)
    \/ \E msg \in PlayerMessages("leave_game") : on_leave_game(msg)
    \/ \E msg \in HostMessages("sync") \cup PlayerMessages("sync") : on_sync(msg)
    \/ \E msg \in HostMessages("select_question"), t \in ThemeInputs, s \in ScoreInputs :
          /\ game_host_only_status(msg) # 0 => (t = "TestTheme" /\ s = 100)
          /\ on_select_question(msg, t, s)
    \/ \E msg \in PlayerMessages("select_answering_player") :
          on_select_answering_player(msg)
    \/ \E msg \in HostMessages("decline_answer") : on_decline_answer(msg)
    \/ \E msg \in HostMessages("accept_answer") : on_accept_answer(msg)
    \/ \E msg \in HostMessages("skip_question") : on_skip_question(msg)

AppSpec == Init /\ [][AppNext]_vars

\* =================================================================== claims
\* the Question object at <<theme, index>> before and after a step
QuestionAt(tq, ref) == tq[ref[1]][ref[2]]

\* every question position of the board
AllQuestions(tq) == UNION { { << t, i >> : i \in 1..Len(tq[t]) } : t \in DOMAIN tq }

\* the conditions game.py defines as subclasses of GameError
GameErrors == { "ThemeNotFound", "QuestionNotFound", "QuestionDisabled",
                "QuestionIsAlreadySelected", "QuestionIsNotSelected",
                "PlayerIsNotSelected", "PlayerIsAlreadySelected" }

\* the step is a call of op that returned normally
Succeeded(op) == last_op'.op = op /\ raised' = "ok"

C2_DeclineClearsAndDisables ==
    [][ Succeeded("decline_answer") =>
          /\ current_question # NoQuestion
          /\ CurrentQ.answering_player # NoPlayer
          /\ LET P == CurrentQ.answering_player
                 after == QuestionAt(themes_questions', current_question) IN
               /\ current_question' = NoQuestion
               /\ after.disabled
               /\ player_score'[P] = player_score[P] - CurrentQ.score ]_vars

\* C3: a successful accept_answer adds the question's score to the answering
\* player's score and to no other player's, clears the question's answering
\* player, disables the question and sets current_question to None.
C3_AcceptResolvesQuestion ==
    [][ Succeeded("accept_answer") =>
          /\ current_question # NoQuestion
          /\ CurrentQ.answering_player # NoPlayer
          /\ LET P == CurrentQ.answering_player
                 after == QuestionAt(themes_questions', current_question) IN
               /\ player_score'[P] = player_score[P] + CurrentQ.score
               /\ \A o \in Created \ {P} : player_score'[o] = player_score[o]
               /\ after.answering_player = NoPlayer
               /\ after.disabled = TRUE
               /\ current_question' = NoQuestion ]_vars

\* an accept has just succeeded with two players in the game: one player
\* holds the question's score, the other still 0, the question is disabled
C3_Witness ==
    /\ last_op.op = "accept_answer" /\ raised = "ok"
    /\ current_question = NoQuestion
    /\ \E q \in AllQuestions(themes_questions) :
         /\ QuestionAt(themes_questions, q).disabled
         /\ \E p, o \in Created :
              /\ p # o
              /\ player_score[p] = QuestionAt(themes_questions, q).score
              /\ player_score[o] = 0

\* C4: when a question is current, its answering player is None or a player
\* currently in players (select_answering_player is only called for roster
\* members).
C4_AnsweringPlayerInRoster ==
    current_question # NoQuestion =>
        \/ CurrentQ.answering_player = NoPlayer
        \/ CurrentQ.answering_player \in Range(players)

\* C5: a call of select_question, select_answering_player, accept_answer,
\* decline_answer or skip_question either succeeds or raises one of the game
\* conditions, and when it raises the whole game state is as before the call.
C5_FailureLeavesStateUnchanged ==
    [][ last_op'.op \in { "select_question", "select_answering_player",
                          "accept_answer", "decline_answer", "skip_question" } =>
          \/ raised' = "ok"
          \/ /\ raised' \in GameErrors
             /\ players' = players
             /\ player_name' = player_name
             /\ player_score' = player_score
             /\ themes_questions' = themes_questions
             /\ current_question' = current_question ]_vars

\* accept_answer has just failed for lack of an answering player, in a game
\* where a question is current and a player already has a non-zero score
C5_Witness ==
    /\ last_op.op = "accept_answer" /\ raised = "PlayerIsNotSelected"
    /\ current_question # NoQuestion
    /\ \E p \in Created : player_score[p] # 0

\* the positions in a theme's list of the questions with the given score
Matching(qs, score) == { i \in 1..Len(qs) : qs[i].score = score }

\* the least element of a non-empty set of positions
Least(S) == CHOOSE i \in S : \A j \in S : i <= j

\* the outcome the order of guards of section 4.2 gives select_question
\* in the current state
ExpectedSelection(theme, score) ==
    IF current_question # NoQuestion THEN "QuestionIsAlreadySelected"
    ELSE IF theme \notin DOMAIN themes_questions THEN "ThemeNotFound"
    ELSE IF Len(themes_questions[theme]) = 0 THEN "ThemeNotFound"
    ELSE IF Matching(themes_questions[theme], score) = {} THEN "QuestionNotFound"
    ELSE IF themes_questions[theme][Least(Matching(themes_questions[theme], score))].disabled
         THEN "QuestionDisabled"
    ELSE "ok"

\* C6: select_question checks its guards in order: QuestionIsAlreadySelected
\* when a question is current (whatever theme and score), else ThemeNotFound
\* for an absent or empty theme, else the first question with the score
\* decides: QuestionDisabled if it is disabled, current_question if it is
\* enabled, QuestionNotFound if there is none; a failing call leaves
\* current_question as it was.
C6_SelectQuestionGuardOrder ==
    [][ last_op'.op = "select_question" =>
          LET theme == last_op'.theme
              score == last_op'.score IN
            /\ raised' = ExpectedSelection(theme, score)
            /\ raised' = "ok" =>
                 current_question' =
                     << theme, Least(Matching(themes_questions[theme], score)) >>
            /\ raised' # "ok" => current_question' = current_question
            /\ raised' \in { "ThemeNotFound", "QuestionDisabled", "QuestionNotFound" } =>
                 current_question' = NoQuestion ]_vars

\* select_question has just failed with QuestionDisabled on a first match
\* although a later question of the theme with the same score is enabled
C6_Witness ==
    /\ last_op.op = "select_question" /\ raised = "QuestionDisabled"
    /\ current_question = NoQuestion
    /\ \E i \in Matching(themes_questions[last_op.theme], last_op.score) :
         /\ i > Least(Matching(themes_questions[last_op.theme], last_op.score))
         /\ ~ themes_questions[last_op.theme][i].disabled

\* C7: skip_question with a current question succeeds, disables that
\* question and sets current_question to None, with or without an answering
\* player, and changes no player's score.
C7_SkipDisablesAndClears ==
    [][ (last_op'.op = "skip_question" /\ current_question # NoQuestion) =>
          /\ raised' = "ok"
          /\ QuestionAt(themes_questions', current_question).disabled
          /\ current_question' = NoQuestion
          /\ player_score' = player_score ]_vars

\* a skip has just succeeded on a question that had an answering player: the
\* question is disabled and current_question is None
C7_Witness ==
    /\ last_op.op = "skip_question" /\ raised = "ok"
    /\ current_question = NoQuestion
    /\ \E q \in AllQuestions(themes_questions) :
         /\ QuestionAt(themes_questions, q).disabled
         /\ QuestionAt(themes_questions, q).answering_player # NoPlayer

\* C8: in every reachable state the current question, when there is one,
\* is not disabled.
C8_CurrentQuestionEnabled ==
    current_question # NoQuestion => ~ CurrentQ.disabled

\* a question is current while another question of the board is disabled
C8_Witness ==
    /\ current_question # NoQuestion
    /\ last_op.op = "select_question" /\ raised = "ok"
    /\ \E q \in AllQuestions(themes_questions) :
         q # current_question /\ QuestionAt(themes_questions, q).disabled

\* C9: the disabled flag is one-way: a disabled question stays disabled, is
\* never current_question again, and every select_question naming its theme
\* and score fails.
C9_DisabledIsMonotone ==
    [][ \A q \in AllQuestions(themes_questions) :
          QuestionAt(themes_questions, q).disabled =>
            /\ QuestionAt(themes_questions', q).disabled
            /\ current_question' # q
            /\ ( /\ last_op'.op = "select_question"
                 /\ last_op'.theme = q[1]
                 /\ last_op'.score = QuestionAt(themes_questions, q).score )
               => raised' # "ok" ]_vars

\* play has gone on after a question was disabled: another question is
\* current and has an answering player
C9_Witness ==
    /\ current_question # NoQuestion
    /\ CurrentQ.answering_player # NoPlayer
    /\ \E q \in AllQuestions(themes_questions) :
         q # current_question /\ QuestionAt(themes_questions, q).disabled

\* every question of every theme of the board is disabled
AllDisabled(tq) == \A t \in DOMAIN tq : \A i \in 1..Len(tq[t]) : tq[t][i].disabled

\* C10: is_over is true exactly when every question of every theme is
\* disabled (so a fresh game with an enabled question is not over), and the
\* query changes no state.
C10_IsOverIffAllDisabled ==
    /\ [] ( /\ is_over_of(themes_questions) <=> AllDisabled(themes_questions)
            /\ last_op.op = "is_over" => returned = << AllDisabled(themes_questions) >>
            /\ (last_op.op = "__init__" /\ AllQuestions(themes_questions) # {}) =>
                 ~ is_over_of(themes_questions) )
    /\ [][ last_op'.op = "is_over" =>
             /\ raised' = "ok"
             /\ players' = players
             /\ player_name' = player_name
             /\ player_score' = player_score
             /\ themes_questions' = themes_questions
             /\ current_question' = current_question ]_vars

\* the query has just answered True on a board whose questions were all
\* resolved by play
C10_Witness ==
    /\ last_op.op = "is_over" /\ returned = << TRUE >>
    /\ AllQuestions(themes_questions) # {}
    /\ \E p \in Created : player_score[p] # 0

\* C11: with a question current, select_answering_player(p) succeeds and
\* changes nothing when p is already the answering player, fails with
\* PlayerIsAlreadySelected and keeps the answering player when another
\* player is set, and sets the answering player to p when none is set.
C11_SelectAnsweringPlayerCases ==
    [][ (last_op'.op = "select_answering_player" /\ current_question # NoQuestion) =>
          LET p == last_op'.player
              a == CurrentQ.answering_player
              after == QuestionAt(themes_questions', current_question) IN
            /\ current_question' = current_question
            /\ a = p =>
                 /\ raised' = "ok"
                 /\ themes_questions' = themes_questions
                 /\ players' = players
                 /\ player_score' = player_score
            /\ (a # NoPlayer /\ a # p) =>
                 /\ raised' = "PlayerIsAlreadySelected"
                 /\ after.answering_player = a
                 /\ themes_questions' = themes_questions
            /\ a = NoPlayer =>
                 /\ raised' = "ok"
                 /\ after.answering_player = p ]_vars

\* a second player has just been refused while the first one, still in the
\* roster, is the answering player
C11_Witness ==
    /\ last_op.op = "select_answering_player" /\ raised = "PlayerIsAlreadySelected"
    /\ current_question # NoQuestion
    /\ CurrentQ.answering_player \in Range(players)
    /\ CurrentQ.answering_player # last_op.player

\* C12: with no current question accept_answer, decline_answer,
\* skip_question and select_answering_player fail with
\* QuestionIsNotSelected; with a current question without answering player
\* accept_answer and decline_answer fail with PlayerIsNotSelected and
\* skip_question succeeds.
C12_NotSelectedConditions ==
    [][ /\ ( /\ last_op'.op \in { "accept_answer", "decline_answer", "skip_question",
                                  "select_answering_player" }
             /\ current_question = NoQuestion )
           => raised' = "QuestionIsNotSelected"
        /\ ( /\ last_op'.op \in { "accept_answer", "decline_answer" }
             /\ current_question # NoQuestion
             /\ CurrentQ.answering_player = NoPlayer )
           => raised' = "PlayerIsNotSelected"
        /\ ( /\ last_op'.op = "skip_question"
             /\ current_question # NoQuestion
             /\ CurrentQ.answering_player = NoPlayer )
           => raised' = "ok" ]_vars

\* decline_answer has just failed for lack of an answering player on a
\* current question
C12_Witness ==
    /\ last_op.op = "decline_answer" /\ raised = "PlayerIsNotSelected"
    /\ current_question # NoQuestion
    /\ CurrentQ.answering_player = NoPlayer

\* the sequence without the element x, the order of the others kept
Without(s, x) == SelectSeq(s, LAMBDA y : y # x)

C14_ScoreChangesOnlyByResolution ==
    [][ /\ last_op'.op \in { "join", "leave", "select_question",
                             "select_answering_player", "skip_question" } =>
             \A p \in Created : player_score'[p] = player_score[p]
        /\ (last_op'.op \in { "accept_answer", "decline_answer" } /\ raised' # "ok") =>
             player_score' = player_score
        /\ Succeeded("accept_answer") =>
             player_score' = [player_score EXCEPT
                                ![CurrentQ.answering_player] = @ + CurrentQ.score]
        /\ Succeeded("decline_answer") =>
             player_score' = [player_score EXCEPT
                                ![CurrentQ.answering_player] = @ - CurrentQ.score] ]_vars

\* an accept has just succeeded in a game where one player is below zero
\* after a decline and another above zero
C14_Witness ==
    /\ last_op.op = "accept_answer" /\ raised = "ok"
    /\ \E p, o \in Created : player_score[p] < 0 /\ player_score[o] > 0

\* C15: leave of a player who is not in the roster fails with the list's
\* not-found error and changes nothing.
C15_LeaveOfNonMemberFails ==
    [][ (last_op'.op = "leave" /\ last_op'.player \notin Range(players)) =>
          /\ raised' = "ValueError"
          /\ players' = players
          /\ player_name' = player_name
          /\ player_score' = player_score
          /\ themes_questions' = themes_questions
          /\ current_question' = current_question ]_vars

\* a player who had already left has just been refused while another player
\* is in the roster
C15_Witness ==
    /\ last_op.op = "leave" /\ raised = "ValueError"
    /\ last_op.player \in Created
    /\ last_op.player \notin Range(players)
    /\ players # << >>

\* C16: on a current question without answering player the first
\* select_answering_player succeeds; while a player is set every call by
\* another player fails with PlayerIsAlreadySelected; and the player set
\* stays the answering player of the current question through every step
\* that is not accept_answer, decline_answer or skip_question.
C16_FirstBuzzWins ==
    [][ current_question # NoQuestion =>
          LET a == CurrentQ.answering_player
              after == QuestionAt(themes_questions', current_question) IN
            /\ (last_op'.op = "select_answering_player" /\ a = NoPlayer) =>
                 (raised' = "ok" /\ after.answering_player = last_op'.player)
            /\ ( /\ last_op'.op = "select_answering_player"
                 /\ a # NoPlayer
                 /\ a # last_op'.player ) =>
                 raised' = "PlayerIsAlreadySelected"
            /\ ( /\ a # NoPlayer
                 /\ last_op'.op \notin { "accept_answer", "decline_answer",
                                         "skip_question" } ) =>
                 (current_question' = current_question /\ after.answering_player = a) ]_vars

\* a later buzz has just been refused although the winner has left the
\* roster in between
C16_Witness ==
    /\ last_op.op = "select_answering_player" /\ raised = "PlayerIsAlreadySelected"
    /\ current_question # NoQuestion
    /\ CurrentQ.answering_player # NoPlayer
    /\ CurrentQ.answering_player \notin Range(players)

\* C18: when is_over is true there is no current question, and from then on
\* is_over stays true, current_question stays None, every select_question
\* fails and no player's score changes.
C18_GameOverIsFinal ==
    /\ [] ( is_over_of(themes_questions) => current_question = NoQuestion )
    /\ [][ (current_question = NoQuestion /\ is_over_of(themes_questions)) =>
             /\ is_over_of(themes_questions')
             /\ current_question' = NoQuestion
             /\ \A p \in Created : player_score'[p] = player_score[p]
             /\ last_op'.op = "select_question" => raised' # "ok" ]_vars

\* select_question has just been refused on a board played to its end
C18_Witness ==
    /\ is_over_of(themes_questions)
    /\ AllQuestions(themes_questions) # {}
    /\ last_op.op = "select_question" /\ raised = "QuestionDisabled"

\* the number of enabled questions of the board
EnabledCount(tq) ==
    Cardinality({ q \in AllQuestions(tq) : ~ QuestionAt(tq, q).disabled })

\* within every theme no two questions have the same score
UniqueScores(tq) ==
    \A t \in DOMAIN tq : \A i, j \in 1..Len(tq[t]) :
        tq[t][i].score = tq[t][j].score => i = j

\* the safety half of C19: the number of enabled questions goes down by
\* one on every successful accept_answer or skip_question and is unchanged
\* by every other step, and the game is over exactly when it is zero (that
\* is, after as many successful accept/skip calls as the board had enabled
\* questions)
EnabledCountSteps ==
    /\ [] ( is_over_of(themes_questions) <=> EnabledCount(themes_questions) = 0 )
    /\ [][ IF Succeeded("accept_answer") \/ Succeeded("skip_question")
           THEN EnabledCount(themes_questions') = EnabledCount(themes_questions) - 1
           ELSE EnabledCount(themes_questions') = EnabledCount(themes_questions) ]_vars

KeysOfRoster == { KeyOf(p) : p \in Range(players) }

HostEvents == { "select_question", "accept_answer", "decline_answer", "skip_question" }
PlayerEvents == { "leave_game", "select_answering_player" }

\* the handler of the step changed nothing of the game
GameUntouched ==
    /\ players' = players
    /\ player_name' = player_name
    /\ player_score' = player_score
    /\ themes_questions' = themes_questions
    /\ current_question' = current_question
    /\ players_by_key' = players_by_key

\* C17: a host-only message with a missing or wrong host key, and a
\* player-only message with a missing key or a key of no player in the
\* roster, is answered with fail and changes nothing; a message with the
\* right key reaches the core; and players_by_key holds exactly the keys of
\* the players in the roster, each mapped to its player.
C17_KeysAuthorize ==
    /\ [] ( /\ DOMAIN players_by_key = KeysOfRoster
            /\ \A k \in DOMAIN players_by_key : KeyOf(players_by_key[k]) = k )
    /\ [][ /\ (message'.event \in HostEvents /\ message'.host_key # HostKey) =>
                (emitted'.event = "fail" /\ GameUntouched)
           /\ (message'.event \in PlayerEvents /\ message'.player_key \notin KeysOfRoster) =>
                (emitted'.event = "fail" /\ GameUntouched)
           /\ ( /\ message'.event \in HostEvents
                /\ message'.game_id = GameId
                /\ message'.host_key = HostKey ) =>
                (last_op'.op = message'.event /\ emitted' # Emit("fail", -3)
                                              /\ emitted' # Emit("fail", -4))
           /\ ( /\ message'.event \in PlayerEvents
                /\ message'.game_id = GameId
                /\ message'.player_key \in KeysOfRoster ) =>
                ( /\ last_op'.op \in { "leave", "select_answering_player" }
                  /\ KeyOf(last_op'.player) = message'.player_key ) ]_vars

\* a player who left has just buzzed with the key issued at join and was
\* refused, while a question is current
C17_Witness ==
    /\ message.event = "select_answering_player"
    /\ emitted = Emit("fail", -6)
    /\ message.player_key \in { KeyOf(p) : p \in Created }
    /\ current_question # NoQuestion

====
